---- MODULE Spec2Model ----
(***************************************************************************)
(* Model of librustpkg/package_id.rs: the package-identifier constructor   *)
(* PkgId::new with its legality gate and URL-shape heuristic, the derived  *)
(* labels (to_str, is_complex) and the Prefixes iterator.                  *)
(*                                                                         *)
(* A string is a sequence of one-character strings.  An Option is a        *)
(* sequence of length at most one: None is << >>, Some(v) is <<v>>.        *)
(***************************************************************************)
EXTENDS Integers, Sequences, FiniteSets, TLC

VARIABLES
    pc,          \* "start", "constructed", "failed", "raised", "iterating", "reparsed"
    input,       \* the string handed to PkgId::new
    failure,     \* None, or Some(message) of the fail! that ended construction
    id,          \* the constructed PkgId (NoId until constructed)
    hints,       \* candidates of the diagnostics written to messages::error, in order
    raised,      \* reasons of the bad_pkg_id conditions raised, in order
    calls,       \* version lookups performed, in order: [fn, ret]
    components,  \* Prefixes.components
    remaining,   \* Prefixes.remaining
    ret,         \* the last value returned by Prefixes::next (None until called)
    yielded,     \* every pair returned by next() so far, in order
    next_calls,  \* number of next() calls so far
    none_calls,  \* number of next() calls that returned None
    reparse      \* result of PkgId::new on the stringification (NoResult until done)

vars == << pc, input, failure, id, hints, raised, calls, components, remaining,
           ret, yielded, next_calls, none_calls, reparse >>

(***************************************************************************)
(* Bounds.                                                                 *)
(***************************************************************************)
\* longest free-form input, in tokens
MaxLen == 4
\* longest text after the scheme separator of a URL-shaped input, in tokens
MaxRest == 5
\* most components of a path-shaped input
MaxComps == 3
\* next() calls allowed after the iterator has returned None
MaxNoneCalls == 2

(***************************************************************************)
(* Strings.                                                                *)
(***************************************************************************)
None == << >>
Some(v) == << v >>

RECURSIVE Flatten(_)
Flatten(ts) == IF ts = << >> THEN << >> ELSE Head(ts) \o Flatten(Tail(ts))

Front(s) == SubSeq(s, 1, Len(s) - 1)
Last(s) == s[Len(s)]
SliceFrom(s, i) == SubSeq(s, i, Len(s))
StartsWith(s, p) == Len(p) <= Len(s) /\ SubSeq(s, 1, Len(p)) = p

\* s.split_str_iter(sep): the pieces between non-overlapping occurrences of
\* sep, scanned left to right; never empty (the empty string gives <<"">>).
RECURSIVE SplitScan(_, _, _)
SplitScan(rest, sep, cur) ==
    IF rest = << >> THEN << cur >>
    ELSE IF StartsWith(rest, sep)
         THEN << cur >> \o SplitScan(SliceFrom(rest, Len(sep) + 1), sep, << >>)
         ELSE SplitScan(Tail(rest), sep, Append(cur, Head(rest)))

split_str_iter(s, sep) == SplitScan(s, sep, << >>)

\* v.connect(sep)
RECURSIVE connect(_, _)
connect(v, sep) ==
    IF v = << >> THEN << >>
    ELSE IF Len(v) = 1 THEN v[1]
    ELSE v[1] \o sep \o connect(Tail(v), sep)

\* variant: the predicate inverted, so that trailing dots are dropped
RECURSIVE trim_right_dot(_)
trim_right_dot(s) ==
    IF s = << >> \/ Last(s) # "." THEN s ELSE trim_right_dot(Front(s))

\* s.trim_right_chars(&|c| c != '.'): drops the trailing run of non-dots
RECURSIVE trim_right_not_dot(_)
trim_right_not_dot(s) ==
    IF s = << >> \/ Last(s) = "." THEN s ELSE trim_right_not_dot(Front(s))

\* the all-ones uint: what 0u - 1 wraps to (any value above every length)
UintMax == 2147483647
\* len - 1 on uint
UintPred(n) == IF n = 0 THEN UintMax ELSE n - 1

(***************************************************************************)
(* Character classifier.                                                   *)
(***************************************************************************)
Alphanumeric == {"a", "b", "1", "2"}
Digits == {"1", "2"}
\* code points above \x7f in XID_start or XID_continue: none in the alphabet
XidAbove7f == {}

is_url_part(ch) ==
    \/ ch \in Alphanumeric
    \/ ch = "-"
    \/ ch = "_"
    \/ ch \in Digits
    \/ ch = "."
    \/ ch = "/"
    \/ ch \in XidAbove7f

(***************************************************************************)
(* URL-shape heuristic.  The result is [failed, val]: failed when the      *)
(* slice on line 60 is out of range (a task failure), else val is the      *)
(* Option returned.                                                        *)
(***************************************************************************)
\* the messages of the three task failures construction can end in
SliceFailure == "index out of bounds"
ParseFailure == "Can't parse {} as a package ID"
StrangeFailure == "Strange path! {}"

\* the inner loop: every character of substr passes, else is_url is cleared
SegmentClean(substr) == \A j \in 1..Len(substr) : is_url_part(substr[j])

\* the loop body from segment i on, with the loop state (is_url, result)
RECURSIVE DropUrlLoop(_, _, _, _)
DropUrlLoop(segs, i, is_url, result) ==
    IF i > Len(segs)
    THEN [failed |-> FALSE,
          val |-> IF is_url /\ Len(segs) > 1 THEN result ELSE None]
    ELSE LET substr == segs[i]
             is_url2 == is_url /\ SegmentClean(substr)
             no_extension == trim_right_not_dot(substr)
             end == UintPred(Len(no_extension))
         IN IF i = 2
            THEN IF end > Len(no_extension)
                 THEN [failed |-> TRUE, val |-> None]
                 ELSE DropUrlLoop(segs, i + 1, is_url2,
                                  Some(SubSeq(no_extension, 1, end)))
            ELSE DropUrlLoop(segs, i + 1, is_url2, result)

drop_url_scheme(s) ==
    DropUrlLoop(split_str_iter(s, <<":", "/", "/">>), 1, TRUE, None)

(***************************************************************************)
(* Legality gate.  The result is [failure, hints]: failure is None when    *)
(* the string is legal.                                                    *)
(***************************************************************************)
\* variant: the scan does not stop at '#'
RECURSIVE LegalScan_NoHashStop(_)
LegalScan_NoHashStop(s) ==
    IF s = << >> THEN TRUE
    ELSE IF ~is_url_part(Head(s)) THEN FALSE
    ELSE LegalScan_NoHashStop(Tail(s))

\* the scan of lines 81-90: stops at '#', clears legal at a bad character
RECURSIVE LegalScan(_)
LegalScan(s) ==
    IF s = << >> THEN TRUE
    ELSE IF Head(s) = "#" THEN TRUE
    ELSE IF ~is_url_part(Head(s)) THEN FALSE
    ELSE LegalScan(Tail(s))

ensure_legal_package_id(s) ==
    IF LegalScan(s)
    THEN [failure |-> None, hints |-> << >>]
    ELSE LET maybe_intended_path == drop_url_scheme(s)
         IN IF maybe_intended_path.failed
            THEN [failure |-> Some(SliceFailure), hints |-> << >>]
            ELSE [failure |-> Some(ParseFailure),
                  hints |-> maybe_intended_path.val]

(***************************************************************************)
(* Paths (std::path::posix).  A Path is its normalised representation:     *)
(* empty and "." components dropped, ".." resolved against the component   *)
(* before it, no trailing separator, "." for the empty relative path.      *)
(***************************************************************************)
Sep == <<"/">>
Dot == <<".">>
DotDot == <<".", ".">>

RECURSIVE NormalizeHelper(_, _, _, _)
NormalizeHelper(raw, comps, n_up, is_abs) ==
    IF raw = << >> THEN comps
    ELSE LET comp == Head(raw)
             rest == Tail(raw)
         IN IF comp = << >> \/ comp = Dot
            THEN NormalizeHelper(rest, comps, n_up, is_abs)
            ELSE IF comp = DotDot
            THEN IF is_abs /\ comps = << >>
                 THEN NormalizeHelper(rest, comps, n_up, is_abs)
                 ELSE IF Len(comps) = n_up
                 THEN NormalizeHelper(rest, Append(comps, DotDot), n_up + 1, is_abs)
                 ELSE NormalizeHelper(rest, Front(comps), n_up, is_abs)
            ELSE NormalizeHelper(rest, Append(comps, comp), n_up, is_abs)

Path_new(s) ==
    LET is_abs == s # << >> /\ s[1] = "/"
        comps == NormalizeHelper(split_str_iter(s, Sep), << >>, 0, is_abs)
    IN IF is_abs THEN Sep \o connect(comps, Sep)
       ELSE IF comps = << >> THEN Dot
       ELSE connect(comps, Sep)

is_relative(path) == path[1] # "/"

\* index of the last separator, 0 when there is none
RECURSIVE SepIdx(_)
SepIdx(path) ==
    IF path = << >> THEN 0
    ELSE IF Last(path) = "/" THEN Len(path)
    ELSE SepIdx(Front(path))

\* Option: the final component, None for ".", "..", ".../.." and "/"
filename(path) ==
    LET idx == SepIdx(path)
        name == SliceFrom(path, idx + 1)
    IN IF idx = 0 /\ (path = Dot \/ path = DotDot) THEN None
       ELSE IF idx = 0 THEN Some(path)
       ELSE IF name = DotDot THEN None
       ELSE IF idx = 1 /\ name = << >> THEN None
       ELSE Some(name)

\* index of the last '.', 0 when there is none
RECURSIVE RPositionDot(_)
RPositionDot(name) ==
    IF name = << >> THEN 0
    ELSE IF Last(name) = "." THEN Len(name)
    ELSE RPositionDot(Front(name))

\* Option: the final component without its last extension
filestem_str(path) ==
    LET f == filename(path)
    IN IF f = None THEN None
       ELSE LET name == f[1]
                pos == RPositionDot(name)
            IN IF pos = 0 \/ pos = 1 THEN Some(name)
               ELSE IF pos = 2 /\ name = DotDot THEN Some(name)
               ELSE Some(SubSeq(name, 1, pos - 1))

\* the components of the path, as strings
str_component_iter(path) ==
    LET v == IF path[1] = "/" THEN Tail(path) ELSE path
    IN IF v = << >> THEN << >> ELSE split_str_iter(v, Sep)

(***************************************************************************)
(* Versions (version.rs).                                                  *)
(***************************************************************************)
NoVersion == [kind |-> "NoVersion", tag |-> << >>]
ExactRevision(t) == [kind |-> "ExactRevision", tag |-> t]

\* the version as a string: empty when absent
Version_to_str(v) == v.tag

\* index of the first '#', 0 when there is none
RECURSIVE FindHash(_, _)
FindHash(s, i) ==
    IF i > Len(s) THEN 0
    ELSE IF s[i] = "#" THEN i
    ELSE FindHash(s, i + 1)

\* Option of <<path_part, version>>: splits on the first '#'
split_version(s) ==
    LET i == FindHash(s, 1)
    IN IF i = 0 THEN None
       ELSE Some(<< SubSeq(s, 1, i - 1), ExactRevision(SliceFrom(s, i + 1)) >>)

\* what try_getting_local_version may answer: nothing, or a revision
LocalResults == {None, Some(ExactRevision(<<"1">>))}
\* what try_getting_version may answer: nothing, or another revision
RemoteResults == {None, Some(ExactRevision(<<"2">>))}

(***************************************************************************)
(* PkgId::new.  lv and rv are what try_getting_local_version and           *)
(* try_getting_version answer if they are called.  The result is           *)
(* [failure, hints, raised, calls, id]; where bad_pkg_id is raised the     *)
(* value returned is the handler's, and id is left as NoId.                *)
(***************************************************************************)
NoId == [path |-> << >>, short_name |-> << >>, version |-> NoVersion]

Call(fn, r) == [fn |-> fn, ret |-> r]

\* variant: the two checks in the other order
CheckPath_ZeroLengthFirst(path) ==
    IF filename(path) = None THEN Some("0-length pkgid")
    ELSE IF ~is_relative(path) THEN Some("absolute pkgid")
    ELSE None

\* lines 127-132: Option of the reason bad_pkg_id is raised with
CheckPath(path) ==
    IF ~is_relative(path) THEN Some("absolute pkgid")
    ELSE IF filename(path) = None THEN Some("0-length pkgid")
    ELSE None

\* variant: the whole final component
ShortName_Filename(path) == filename(path)

\* line 133
ShortName(path) == filestem_str(path)

\* variant: the remote lookup is consulted before the local one
ResolveVersion_RemoteFirst(given_version, lv, rv) ==
    IF given_version # None
    THEN [version |-> given_version[1], calls |-> << >>]
    ELSE IF rv # None
    THEN [version |-> rv[1],
          calls |-> << Call("try_getting_version", rv) >>]
    ELSE IF lv # None
    THEN [version |-> lv[1],
          calls |-> << Call("try_getting_version", rv),
                       Call("try_getting_local_version", lv) >>]
    ELSE [version |-> NoVersion,
          calls |-> << Call("try_getting_version", rv),
                       Call("try_getting_local_version", lv) >>]

\* lines 135-144: [version, calls]
ResolveVersion(given_version, lv, rv) ==
    IF given_version # None
    THEN [version |-> given_version[1], calls |-> << >>]
    ELSE IF lv # None
    THEN [version |-> lv[1],
          calls |-> << Call("try_getting_local_version", lv) >>]
    ELSE IF rv # None
    THEN [version |-> rv[1],
          calls |-> << Call("try_getting_local_version", lv),
                       Call("try_getting_version", rv) >>]
    ELSE [version |-> NoVersion,
          calls |-> << Call("try_getting_local_version", lv),
                       Call("try_getting_version", rv) >>]

PkgId_new(s, lv, rv) ==
    LET gate == ensure_legal_package_id(s)
        sv == split_version(s)
        given_version == IF sv = None THEN None ELSE Some(sv[1][2])
        s2 == IF sv = None THEN s ELSE sv[1][1]
        path == Path_new(s2)
        bad == CheckPath(path)
        short_name == ShortName(path)
        res == ResolveVersion(given_version, lv, rv)
        stop == [failure |-> None, hints |-> << >>, raised |-> << >>,
                 calls |-> << >>, id |-> NoId]
    IN IF gate.failure # None
       THEN [stop EXCEPT !.failure = gate.failure, !.hints = gate.hints]
       ELSE IF bad # None
       THEN [stop EXCEPT !.raised = bad]
       ELSE IF short_name = None
       THEN [stop EXCEPT !.failure = Some(StrangeFailure)]
       ELSE [stop EXCEPT !.calls = res.calls,
                         !.id = [path |-> path,
                                 short_name |-> short_name[1],
                                 version |-> res.version]]

\* impl Eq for PkgId
PkgId_eq(self, other) ==
    self.path = other.path /\ self.version = other.version

\* variant: the version is left out
to_str_PathOnly(self) == self.path

\* impl ToStr for PkgId
to_str(self) == self.path \o <<"-">> \o Version_to_str(self.version)

is_complex(self) == self.short_name # self.path

(***************************************************************************)
(* Prefixes.                                                               *)
(***************************************************************************)
\* prefixes_iter: the iterator's initial fields
prefixes_iter(p) == [components |-> str_component_iter(p), remaining |-> << >>]

\* variant: the guard is off by one, so the last component is moved too
Prefixes_next_OffByOne(comps, rem) ==
    IF Len(comps) < 1
    THEN [components |-> comps, remaining |-> rem, ret |-> None]
    ELSE LET last == Last(comps)
             comps2 == Front(comps)
             rem2 == << last >> \o rem
         IN [components |-> comps2, remaining |-> rem2,
             ret |-> Some(<< Path_new(connect(comps2, Sep)),
                             Path_new(connect(rem2, Sep)) >>)]

\* variant: the popped component is pushed at the end of remaining
Prefixes_next_Push(comps, rem) ==
    IF Len(comps) <= 1
    THEN [components |-> comps, remaining |-> rem, ret |-> None]
    ELSE LET last == Last(comps)
             comps2 == Front(comps)
             rem2 == Append(rem, last)
         IN [components |-> comps2, remaining |-> rem2,
             ret |-> Some(<< Path_new(connect(comps2, Sep)),
                             Path_new(connect(rem2, Sep)) >>)]

\* Prefixes::next on the fields: [components, remaining, ret]
Prefixes_next(comps, rem) ==
    IF Len(comps) <= 1
    THEN [components |-> comps, remaining |-> rem, ret |-> None]
    ELSE LET last == Last(comps)
             comps2 == Front(comps)
             rem2 == << last >> \o rem
         IN [components |-> comps2, remaining |-> rem2,
             ret |-> Some(<< Path_new(connect(comps2, Sep)),
                             Path_new(connect(rem2, Sep)) >>)]

(***************************************************************************)
(* The state machine.                                                      *)
(***************************************************************************)
NoResult == [failure |-> None, hints |-> << >>, raised |-> << >>,
             calls |-> << >>, id |-> NoId, input |-> << >>, done |-> FALSE]

TokenSeqs(S, n) == UNION { [1..k -> S] : k \in 0..n }

\* free-form inputs: every string of at most MaxLen tokens (the scheme
\* separator is one token)
Tokens == { <<"a">>, <<".">>, <<"/">>, <<"#">>, <<":">>, <<":", "/", "/">> }
FreeInputs == { Flatten(ts) : ts \in TokenSeqs(Tokens, MaxLen) }

\* URL-shaped inputs: an optional scheme, the separator, then the rest
UrlTokens == { <<"a">>, <<".">>, <<"/">> }
UrlInputs == { scheme \o <<":", "/", "/">> \o Flatten(ts) :
                 scheme \in { << >>, <<"a">> },
                 ts \in TokenSeqs(UrlTokens, MaxRest) }

\* path-shaped inputs: at most MaxComps components joined by '/'
Comps == { <<"a">>, <<"b">>, <<"a", ".", "b">>, <<".", ".">> }
PathInputs == { connect(cs, Sep) : cs \in TokenSeqs(Comps, MaxComps) }

Inputs == FreeInputs \cup UrlInputs \cup PathInputs

InitWith(S) ==
    /\ input \in S
    /\ pc = "start"
    /\ failure = None
    /\ id = NoId
    /\ hints = << >>
    /\ raised = << >>
    /\ calls = << >>
    /\ components = << >>
    /\ remaining = << >>
    /\ ret = None
    /\ yielded = << >>
    /\ next_calls = 0
    /\ none_calls = 0
    /\ reparse = NoResult

Init == InitWith(Inputs)

\* PkgId::new(input)
New ==
    /\ pc = "start"
    /\ \E lv \in LocalResults, rv \in RemoteResults :
         LET r == PkgId_new(input, lv, rv)
         IN /\ failure' = r.failure
            /\ hints' = r.hints
            /\ raised' = r.raised
            /\ calls' = r.calls
            /\ id' = r.id
            /\ pc' = IF r.failure # None THEN "failed"
                     ELSE IF r.raised # << >> THEN "raised"
                     ELSE "constructed"
    /\ UNCHANGED << input, components, remaining, ret, yielded, next_calls,
                    none_calls, reparse >>

\* id.prefixes_iter()
PrefixesIter ==
    /\ pc = "constructed"
    /\ LET it == prefixes_iter(id.path)
       IN /\ components' = it.components
          /\ remaining' = it.remaining
    /\ pc' = "iterating"
    /\ UNCHANGED << input, failure, id, hints, raised, calls, ret, yielded,
                    next_calls, none_calls, reparse >>

\* one call of next() on the iterator
Next_ ==
    /\ pc = "iterating"
    /\ LET r == Prefixes_next(components, remaining)
       IN /\ r.ret = None => none_calls < MaxNoneCalls
          /\ components' = r.components
          /\ remaining' = r.remaining
          /\ ret' = r.ret
          /\ yielded' = yielded \o r.ret
          /\ next_calls' = next_calls + 1
          /\ none_calls' = IF r.ret = None THEN none_calls + 1 ELSE none_calls
    /\ UNCHANGED << pc, input, failure, id, hints, raised, calls, reparse >>

\* the stringification with the resolved version supplied after '#'
ReparseInput(self) ==
    IF self.version.kind = "NoVersion" THEN to_str(self)
    ELSE to_str(self) \o <<"#">> \o self.version.tag

\* PkgId::new(id.to_str() + "#" + version)
Reparse ==
    /\ pc = "constructed"
    /\ \E lv \in LocalResults, rv \in RemoteResults :
         LET s == ReparseInput(id)
             r == PkgId_new(s, lv, rv)
         IN reparse' = [failure |-> r.failure, hints |-> r.hints,
                        raised |-> r.raised, calls |-> r.calls, id |-> r.id,
                        input |-> s, done |-> TRUE]
    /\ pc' = "reparsed"
    /\ UNCHANGED << input, failure, id, hints, raised, calls, components,
                    remaining, ret, yielded, next_calls, none_calls >>

Next == New \/ PrefixesIter \/ Next_ \/ Reparse

Spec == Init /\ [][Next]_vars

(***************************************************************************)
(* Vocabulary of the properties, stated on the input text itself.          *)
(***************************************************************************)
Constructed == pc \in {"constructed", "iterating", "reparsed"}
GatePassed == pc # "start" /\ failure = None
GateRejected == pc = "failed"
Drained == pc = "iterating" /\ none_calls >= 1

HasTag(s) == \E i \in 1..Len(s) : s[i] = "#"
FirstHash(s) == CHOOSE i \in 1..Len(s) : s[i] = "#" /\ \A j \in 1..(i - 1) : s[j] # "#"
\* the text before the first '#' (all of it when there is none)
PathPart(s) == IF HasTag(s) THEN SubSeq(s, 1, FirstHash(s) - 1) ELSE s
\* the text after the first '#'
TagOf(s) == SubSeq(s, FirstHash(s) + 1, Len(s))

Chars(s) == { s[i] : i \in 1..Len(s) }
DotsOf(s) == { i \in 1..Len(s) : s[i] = "." }
Max(S) == CHOOSE x \in S : \A y \in S : y <= x
Min(S) == CHOOSE x \in S : \A y \in S : x <= y
Origin == str_component_iter(id.path)

\* positions where the scheme separator starts
SchemeSeps(s) ==
    { i \in 1..(Len(s) - 2) : s[i] = ":" /\ s[i + 1] = "/" /\ s[i + 2] = "/" }
UrlShaped(s) == SchemeSeps(s) # {}
\* everything after the first scheme separator
RestOf(s) == SubSeq(s, Min(SchemeSeps(s)) + 3, Len(s))
\* the text between the first scheme separator and the next one (or the end)
SecondSegment(s) ==
    LET r == RestOf(s)
    IN IF SchemeSeps(r) = {} THEN r ELSE SubSeq(r, 1, Min(SchemeSeps(r)) - 1)
\* every character outside the scheme separators passes the classifier
SegmentsClean(s) ==
    \A i \in 1..Len(s) :
        \/ is_url_part(s[i])
        \/ \E k \in SchemeSeps(s) : i = k
LooksLikeUrl(s) == UrlShaped(s) /\ SegmentsClean(s)

\* C1: the resolved version is the explicit tag, else the local answer, else
\* the remote answer, else none; the local lookup is not called when a tag
\* was given, the remote lookup is called only after the local one answered
\* nothing, and construction then ends without failure or condition.
C1_VersionPrecedence ==
    Constructed =>
        /\ failure = None /\ raised = << >>
        /\ HasTag(input) =>
               /\ calls = << >>
               /\ id.version = ExactRevision(TagOf(input))
        /\ ~HasTag(input) =>
               /\ Len(calls) >= 1
               /\ calls[1].fn = "try_getting_local_version"
               /\ calls[1].ret # None =>
                      Len(calls) = 1 /\ id.version = calls[1].ret[1]
               /\ calls[1].ret = None =>
                      /\ Len(calls) = 2
                      /\ calls[2].fn = "try_getting_version"
                      /\ calls[2].ret # None => id.version = calls[2].ret[1]
                      /\ calls[2].ret = None => id.version = NoVersion

\* the remote answer was used after the local lookup answered nothing
C1_Witness ==
    /\ Constructed /\ ~HasTag(input)
    /\ Len(calls) = 2 /\ calls[1].ret = None /\ calls[2].ret # None
    /\ id.version = calls[2].ret[1]

\* C2: draining the prefix enumerator of an identifier whose path has n >= 2
\* components gives exactly n-1 pairs, the k-th being (c1..c(n-k),
\* c(n-k+1)..cn), both parts non-empty and joining back to the path with '/';
\* with n <= 1 it gives nothing.
C2_PrefixPairs ==
    Drained =>
        LET n == Len(Origin)
        IN /\ n <= 1 => yielded = << >>
           /\ n >= 2 =>
                  /\ Len(yielded) = n - 1
                  /\ \A k \in 1..(n - 1) :
                         /\ yielded[k][1] = connect(SubSeq(Origin, 1, n - k), Sep)
                         /\ yielded[k][2] = connect(SubSeq(Origin, n - k + 1, n), Sep)
                         /\ yielded[k][1] # << >>
                         /\ yielded[k][2] # << >>
                         /\ yielded[k][1] \o Sep \o yielded[k][2] = id.path

\* a three-component path drained: two pairs, the longer ancestor first
C2_Witness ==
    /\ Drained /\ Len(Origin) = 3 /\ Len(yielded) = 2
    /\ Len(yielded[1][1]) > Len(yielded[2][1])
    /\ Origin[2] # Origin[3]

\* C3 (as stated): is_complex is true exactly when the prefix enumerator
\* yields at least one pair, also when the final component has an extension.
C3_ComplexIffPrefixes ==
    Drained => (is_complex(id) <=> yielded # << >>)

\* C4 (as stated): short_name is the whole final component of path.
C4_ShortNameIsLastComponent ==
    Constructed => id.short_name = Last(Origin)

\* C4 (amended): short_name is the final component of path cut before its
\* last '.', and the whole component when it has no '.' or only a leading one.
C4_ShortNameIsFilestem ==
    Constructed =>
        LET name == Last(Origin)
            dots == DotsOf(name)
        IN id.short_name = IF dots = {} \/ Max(dots) = 1 THEN name
                           ELSE SubSeq(name, 1, Max(dots) - 1)

\* the final component has an extension and short_name leaves it out
C4_Witness ==
    /\ Constructed
    /\ DotsOf(Last(Origin)) # {}
    /\ id.short_name # Last(Origin)
    /\ Len(Origin) >= 2

\* C5: the gate accepts exactly the inputs whose characters before the first
\* '#' all pass the classifier; nothing from the '#' on is validated, and the
\* text after it becomes the explicit version.
C5_GateStopsAtHash ==
    pc # "start" =>
        /\ ~GateRejected <=> \A c \in Chars(PathPart(input)) : is_url_part(c)
        /\ (Constructed /\ HasTag(input)) =>
               id.version = ExactRevision(TagOf(input))

\* an identifier constructed with a tag that holds a character the
\* classifier refuses
C5_Witness ==
    /\ Constructed /\ HasTag(input)
    /\ \E c \in Chars(TagOf(input)) : ~is_url_part(c)
    /\ id.version.tag = TagOf(input)

\* the final '/'-separated piece of a string
FinalPiece(s) ==
    LET seps == { i \in 1..Len(s) : s[i] = "/" }
    IN IF seps = {} THEN s ELSE SubSeq(s, Max(seps) + 1, Len(s))
\* a string without the extensions of its final piece (y.tar.gz gives y)
WithoutExtensions(s) ==
    LET f == FinalPiece(s)
        ext == { i \in DotsOf(f) : i > 1 }
    IN IF ext = {} THEN s ELSE SubSeq(s, 1, Len(s) - Len(f) + Min(ext) - 1)

\* a file name with extensions: no empty piece between its dots
NameWithExtension(f) ==
    /\ DotsOf(f) # {}
    /\ \A i \in DotsOf(f) : i > 1 /\ i < Len(f) /\ (i + 1) \notin DotsOf(f)

\* C6 (as stated): for a rejected input <scheme>://<rest> with clean
\* segments whose <rest> ends in a file name with extensions, the candidate
\* suggested is <rest> without them (y.git gives y, y.tar.gz gives y).
C6_SuggestsRestWithoutExtension ==
    (GateRejected /\ LooksLikeUrl(input)
       /\ NameWithExtension(FinalPiece(RestOf(input)))) =>
        hints = << WithoutExtensions(RestOf(input)) >>

\* C6 (amended): the candidate is the segment after the first scheme
\* separator cut before its last '.', and only that one suffix is dropped;
\* when that segment has no '.', the heuristic fails at its slice and
\* nothing is suggested.
C6_SuggestsSegmentUpToLastDot ==
    (GateRejected /\ LooksLikeUrl(input)) =>
        LET seg == SecondSegment(input)
        IN IF DotsOf(seg) = {}
           THEN hints = << >> /\ failure = Some(SliceFailure)
           ELSE /\ hints = << SubSeq(seg, 1, Max(DotsOf(seg)) - 1) >>
                /\ failure = Some(ParseFailure)

\* a rest with two extensions: the candidate keeps the first of them
C6_Witness ==
    /\ GateRejected /\ LooksLikeUrl(input)
    /\ Cardinality({ i \in DotsOf(FinalPiece(RestOf(input))) : i > 1 }) = 2
    /\ Len(hints) = 1
    /\ DotsOf(FinalPiece(hints[1])) # {}

\* the path built from the text has no final component
NoFinalComponent(p) ==
    \/ p = Dot
    \/ p = DotDot
    \/ p = Sep
    \/ Len(p) >= 3 /\ SubSeq(p, Len(p) - 2, Len(p)) = Sep \o DotDot

\* C7: once the gate has passed, bad_pkg_id is raised exactly once, with
\* "absolute pkgid" for an absolute path part and otherwise with "0-length
\* pkgid" for a path without final component, before any version lookup; a
\* relative path with a final component raises nothing.
C7_StructuralRejection ==
    GatePassed =>
        LET part == PathPart(input)
        IN IF part # << >> /\ part[1] = "/"
           THEN raised = << "absolute pkgid" >> /\ calls = << >> /\ pc = "raised"
           ELSE IF NoFinalComponent(Path_new(part))
           THEN raised = << "0-length pkgid" >> /\ calls = << >> /\ pc = "raised"
           ELSE raised = << >> /\ Constructed

\* an absolute path without final component: the absolute reason wins
C7_Witness ==
    /\ GatePassed
    /\ NoFinalComponent(Path_new(PathPart(input)))
    /\ raised = << "absolute pkgid" >>

\* the re-parse of the stringification constructed an identifier
Reconstructed == reparse.done /\ reparse.failure = None /\ reparse.raised = << >>

\* C8 (as stated): the stringification, with the resolved version supplied
\* again after '#', re-parses to an identifier equal to the original.
C8_RoundTrip ==
    (reparse.done /\ id.version.kind = "ExactRevision") =>
        Reconstructed /\ PkgId_eq(reparse.id, id)

\* C8 (amended): when the version tag holds no '#' and the re-parse is
\* accepted, the identifier it gives has the path built from
\* "<path>-<version>", not path, and the same version when one was supplied.
C8_ReparseAppendsVersion ==
    (Reconstructed /\ ~HasTag(id.version.tag)) =>
        /\ reparse.id.path = Path_new(id.path \o <<"-">> \o id.version.tag)
        /\ id.version.kind # "NoVersion" => reparse.id.version = id.version

\* a tagged identifier re-parsed: same version, another path
C8_Witness ==
    /\ Reconstructed
    /\ id.version.kind = "ExactRevision"
    /\ reparse.id.version = id.version
    /\ reparse.id.path # id.path

\* C9 (as stated): a rejection by the gate always ends in the "Can't parse"
\* failure with no condition raised and no lookup made, after exactly one
\* hint when the input looks like a URL and after none otherwise.
C9_RejectionAlwaysCantParse ==
    (pc # "start"
       /\ \E c \in Chars(PathPart(input)) : ~is_url_part(c)) =>
        /\ failure = Some(ParseFailure)
        /\ raised = << >> /\ calls = << >>
        /\ Len(hints) = IF LooksLikeUrl(input) THEN 1 ELSE 0

\* C10: while next() is called on a Prefixes, components ++ remaining stays
\* the original component list and components is never empty.
C10_Conserved ==
    pc = "iterating" => components \o remaining = Origin /\ components # << >>

\* C10: a next() that returns a pair moves the last of components to the
\* front of remaining; after a None, next() returns None and changes nothing.
C10_Step ==
    (pc = "iterating" /\ next_calls' = next_calls + 1) =>
        /\ ret' # None =>
               /\ components' = Front(components)
               /\ remaining' = << Last(components) >> \o remaining
        /\ (next_calls >= 1 /\ ret = None) =>
               ret' = None /\ UNCHANGED << components, remaining >>

\* C10: both parts, in every behaviour of the iterator.
C10_PrefixesInvariant == [](C10_Conserved) /\ [][C10_Step]_vars

\* None returned twice after two components were moved
C10_Witness ==
    /\ pc = "iterating" /\ none_calls = 2 /\ ret = None
    /\ Len(remaining) = 2 /\ remaining[1] # remaining[2]

====
